---- MODULE Spec2Model ----
(***************************************************************************)
(* cdu: a dynamic-DNS updater for Cloudflare.                              *)
(*                                                                         *)
(* The repository holds two reconciliation engines:                        *)
(*   - src/src/cdu.rs   Cdu::run: identifier cache behind a mutex, one     *)
(*                      spawned task per record name for resolution and    *)
(*                      for update;                                        *)
(*   - src/src/main.rs  main / run_daemon / run_once / CFClient: a         *)
(*                      sequential engine driven by a fixed interval.      *)
(* opts.engine says which of the two the process runs.  Both talk to the   *)
(* same provider, whose answers are nondeterministic, and both record the  *)
(* provider calls of the current run in the variable calls.                *)
(***************************************************************************)
EXTENDS Integers, Sequences, FiniteSets, TLC

\* ---------------------------------------------------------------- bounds
MaxRecords == 2      \* longest configured record-name list
MaxTtl == 1          \* largest configured cache TTL (seconds); 0 is also tried
MaxInterval == 2     \* largest configured daemon interval (seconds)
MaxIds == 2          \* identifiers the provider may hand out for one name

\* ---------------------------------------------------------------- domains
ZoneName == "z.com"
\* Record names; the zone apex is a legal record name.
Names == {"z.com", "a.z.com"}
IPs == {"ip1", "ip2"}

NoId == [ty |-> "none", of |-> "", v |-> 0]
ZoneIds(n) == {[ty |-> "zone", of |-> n, v |-> k] : k \in 1..MaxIds}
RecordIds(n) == {[ty |-> "record", of |-> n, v |-> k] : k \in 1..MaxIds}

RecordLists == UNION {[1..n -> Names] : n \in 1..MaxRecords}

\* Options of the two binaries (opts.rs; main.rs Opts). The engine of cdu.rs
\* reads cache_seconds; the engine of main.rs reads daemon and interval.
Configs ==
    {[engine |-> "cdu", zone |-> ZoneName, records |-> rs, cache_seconds |-> t,
      daemon |-> TRUE, interval |-> 1] : rs \in RecordLists, t \in 0..MaxTtl}
    \cup
    {[engine |-> "main", zone |-> ZoneName, records |-> rs, cache_seconds |-> 0,
      daemon |-> d, interval |-> iv] :
        rs \in RecordLists, d \in BOOLEAN, iv \in 1..MaxInterval}

VARIABLES
    opts,        \* the configuration (immutable)
    cache,       \* Cdu.cache: TtlCache entries, oldest insertion first
    lock,        \* holder of the cache mutex: "free" or "run"
    pc,          \* position of Cdu::run
    ip_address,  \* the public address of the current run
    zone_id,     \* the zone identifier of the current run
    tasks,       \* record-resolution tasks of the current run
    utasks,      \* update tasks of the current run
    calls,       \* provider calls issued by the current run
    result,      \* outcome of the current (or last) run
    prev,        \* status of the run before the current one
    dpc,         \* position of main / run_daemon
    rpc,         \* position of run_once
    idx,         \* record_names_to_ids: index of the name being listed
    record_map,  \* record_names_to_ids: name -> identifier pairs
    todo,        \* update_dns_records: names of record_map not yet updated
    cur,         \* update_dns_records: name whose update is awaited
    elapsed,     \* seconds since the last timer tick of run_daemon
    running,     \* number of run_once futures alive
    attempts,    \* run_once invocations of the current loop iteration
    exit         \* process result: "running", "ok" or "err"

vars == <<opts, cache, lock, pc, ip_address, zone_id, tasks, utasks, calls,
          result, prev, dpc, rpc, idx, record_map, todo, cur, elapsed, running,
          attempts, exit>>

cduVars == <<cache, lock, pc, tasks, utasks>>
mainVars == <<dpc, rpc, idx, record_map, todo, cur, elapsed, running, attempts, exit>>

\* ---------------------------------------------------------------- results
Pending == [status |-> "pending", cause |-> "", stage |-> ""]
Ok == [status |-> "ok", cause |-> "", stage |-> ""]
Err(cause, stage) == [status |-> "err", cause |-> cause, stage |-> stage]

\* ---------------------------------------------------------------- provider calls
ListZones(name) ==
    [kind |-> "list_zones", zone |-> NoId, id |-> NoId, name |-> name,
     ip |-> "", slot |-> 0]
ListDnsRecords(z, name, slot) ==
    [kind |-> "list_records", zone |-> z, id |-> NoId, name |-> name,
     ip |-> "", slot |-> slot]
UpdateDnsRecord(z, id, name, ip, slot) ==
    [kind |-> "update", zone |-> z, id |-> id, name |-> name,
     ip |-> ip, slot |-> slot]

CallsOf(k) == {c \in calls : c.kind = k}

\* ---------------------------------------------------------------- TtlCache
\* Entry::is_expired: Instant::now() > expiration.
is_expired(e) == e.age > e.ttl

\* TtlCache::get: the value of the entry of key k unless it has expired.
CacheGet(c, k) ==
    IF \E i \in 1..Len(c) : c[i].key = k /\ ~is_expired(c[i])
    THEN (CHOOSE e \in {c[i] : i \in 1..Len(c)} : e.key = k).value
    ELSE NoId

\* TtlCache::insert: replace the entry of key k (it moves to the back), then
\* drop the oldest entry while over capacity.
CacheInsert(c, k, v, ttl, cap) ==
    LET others == SelectSeq(c, LAMBDA e : e.key # k)
        put == Append(others, [key |-> k, value |-> v, ttl |-> ttl, age |-> 0])
    IN  IF Len(put) > cap THEN Tail(put) ELSE put

\* Cdu::new: capacity is one slot per record name plus one for the zone.
Capacity(o) == Len(o.records) + 1

\* Cdu::cache_ttl: Option<Duration> as a set, {} for None.
cache_ttl(o) == IF o.cache_seconds > 0 THEN {o.cache_seconds} ELSE {}

\* The write-back of a fetched identifier: if let Some(ttl) = cache_ttl.
write_back_always(c, k, v, ttl, cap) ==
    CacheInsert(c, k, v, IF ttl = {} THEN 0 ELSE CHOOSE t \in ttl : TRUE, cap)
write_back(c, k, v, ttl, cap) ==
    IF ttl # {} THEN CacheInsert(c, k, v, CHOOSE t \in ttl : TRUE, cap) ELSE c

\* Time passing: every entry ages (the age saturates once expired).
Aged(c) ==
    [i \in 1..Len(c) |->
        [c[i] EXCEPT !.age = IF c[i].age > c[i].ttl THEN c[i].age ELSE c[i].age + 1]]

\* ---------------------------------------------------------------- Init
Init ==
    /\ opts \in Configs
    /\ cache = <<>>
    /\ lock = "free"
    /\ pc = IF opts.engine = "cdu" THEN "idle" ELSE "off"
    /\ ip_address = ""
    /\ zone_id = NoId
    /\ tasks = <<>>
    /\ utasks = <<>>
    /\ calls = {}
    /\ result = Pending
    /\ prev = "pending"
    /\ dpc = IF opts.engine = "main" THEN "start" ELSE "off"
    /\ rpc = "off"
    /\ idx = 0
    /\ record_map = {}
    /\ todo = {}
    /\ cur = ""
    /\ elapsed = 0
    /\ running = 0
    /\ attempts = 0
    /\ exit = "running"

\* ---------------------------------------------------------------- Cdu::run
NTasks == Len(opts.records)

\* for record_name in record_name_list(): tasks.push(tokio::spawn(..))
\* (first: the task returned an Err before any other task had.)
Spawned ==
    [i \in 1..NTasks |-> [st |-> "spawned", id |-> NoId, cause |-> "", first |-> FALSE]]

\* The caller of Cdu::run (a scheduler loop): it calls run again once the
\* previous call has returned.
Cdu_call ==
    /\ opts.engine = "cdu"
    /\ pc = "idle"
    /\ pc' = "public_ip"
    /\ calls' = {}
    /\ result' = Pending
    /\ prev' = result.status
    /\ ip_address' = ""
    /\ zone_id' = NoId
    /\ tasks' = <<>>
    /\ utasks' = <<>>
    /\ UNCHANGED <<opts, cache, lock>>
    /\ UNCHANGED mainVars

\* public_ip::addr_v4().await.ok_or(PublicIPError)?
addr_unchecked(r) == TRUE
addr_ok(r) == r # "none"

\* res.result.first(): Some(zone) or bail!("zone not found")
zone_unchecked(r) == TRUE
zone_found(r) == r # NoId

\* public_ip::addr_v4().await, then the zone lookup in the cache. The
\* MutexGuard of the match scrutinee lives to the end of the match: on a hit
\* it is dropped once the identifier is cloned, on a miss it is still held
\* while the zone listing is awaited.
run_public_ip ==
    /\ pc = "public_ip"
    /\ lock = "free"
    /\ \E r \in IPs \cup {"none"} :
        IF ~addr_ok(r)
        THEN /\ result' = Err("PublicIPError", "ip")
             /\ pc' = "idle"
             /\ UNCHANGED <<ip_address, zone_id, tasks, calls, lock>>
        ELSE /\ ip_address' = r
             /\ IF CacheGet(cache, opts.zone) # NoId
                THEN /\ zone_id' = CacheGet(cache, opts.zone)
                     /\ tasks' = Spawned
                     /\ pc' = "resolving"
                     /\ UNCHANGED <<calls, lock>>
                ELSE /\ calls' = calls \cup {ListZones(opts.zone)}
                     /\ lock' = "run"
                     /\ pc' = "zone_listing"
                     /\ UNCHANGED <<zone_id, tasks>>
             /\ UNCHANGED result
    /\ UNCHANGED <<opts, cache, utasks, prev>>
    /\ UNCHANGED mainVars

\* The answers of the provider to a listing: a transport failure, zero
\* matches, or the identifier of the first match.
ZoneAnswers == {[ty |-> "err", of |-> "", v |-> 0], NoId} \cup ZoneIds(opts.zone)
RecordAnswers(n) == {[ty |-> "err", of |-> "", v |-> 0], NoId} \cup RecordIds(n)

\* client.request(&ListZones).await returns (cdu.rs 83-97). With caching
\* enabled the arm locks the mutex again while the scrutinee's guard is
\* held: std::sync::Mutex::lock then never returns, it deadlocks or panics.
run_zone_listed ==
    /\ pc = "zone_listing"
    /\ \E r \in ZoneAnswers :
        CASE r.ty = "err" ->
                /\ result' = Err("ProviderCallFailed", "zone")
                /\ pc' = "idle"
                /\ lock' = "free"
                /\ UNCHANGED <<zone_id, tasks, cache>>
          [] ~zone_found(r) ->
                /\ result' = Err("ZoneNotFound", "zone")
                /\ pc' = "idle"
                /\ lock' = "free"
                /\ UNCHANGED <<zone_id, tasks, cache>>
          [] OTHER ->
                IF cache_ttl(opts) # {} /\ lock # "free"
                THEN /\ \E o \in {"deadlock", "panic"} : pc' = o
                     /\ UNCHANGED <<result, zone_id, tasks, cache, lock>>
                ELSE /\ cache' = write_back(cache, opts.zone, r, cache_ttl(opts),
                                            Capacity(opts))
                     /\ zone_id' = r
                     /\ tasks' = Spawned
                     /\ pc' = "resolving"
                     /\ lock' = "free"
                     /\ UNCHANGED result
    /\ UNCHANGED <<opts, ip_address, utasks, calls, prev>>
    /\ UNCHANGED mainVars

\* A resolution task starts: cache lookup under the mutex (the guard of the
\* if-let is dropped before the listing is sent), then the listing request.
task_lookup(i) ==
    /\ pc = "resolving"
    /\ tasks[i].st = "spawned"
    /\ lock = "free"
    /\ IF CacheGet(cache, opts.records[i]) # NoId
       THEN /\ tasks' = [tasks EXCEPT ![i] =
                           [st |-> "ok", id |-> CacheGet(cache, opts.records[i]),
                            cause |-> "", first |-> FALSE]]
            /\ UNCHANGED calls
       ELSE /\ tasks' = [tasks EXCEPT ![i].st = "listing"]
            /\ calls' = calls \cup {ListDnsRecords(zone_id, opts.records[i], i)}
    /\ UNCHANGED <<opts, cache, lock, pc, ip_address, zone_id, utasks, result, prev>>
    /\ UNCHANGED mainVars

\* client.request(&ListDnsRecords).await returns in task i (cdu.rs 118-130).
task_listed(i) ==
    /\ pc = "resolving"
    /\ tasks[i].st = "listing"
    /\ \E r \in RecordAnswers(opts.records[i]) :
        CASE r.ty = "err" ->
                /\ tasks' = [tasks EXCEPT ![i] =
                               [st |-> "failed", id |-> NoId,
                                cause |-> "ProviderCallFailed",
                                first |-> \A j \in 1..NTasks : tasks[j].st # "failed"]]
                /\ UNCHANGED cache
          [] r.ty = "none" ->
                /\ tasks' = [tasks EXCEPT ![i] =
                               [st |-> "failed", id |-> NoId,
                                cause |-> "RecordNotFound",
                                first |-> \A j \in 1..NTasks : tasks[j].st # "failed"]]
                /\ UNCHANGED cache
          [] OTHER ->
                /\ cache_ttl(opts) # {} => lock = "free"
                /\ cache' = write_back(cache, opts.records[i], r, cache_ttl(opts),
                                       Capacity(opts))
                /\ tasks' = [tasks EXCEPT ![i] =
                               [st |-> "ok", id |-> r, cause |-> "", first |-> FALSE]]
    /\ UNCHANGED <<opts, lock, pc, ip_address, zone_id, utasks, calls, result, prev>>
    /\ UNCHANGED mainVars

Finished(ts) == \A i \in 1..Len(ts) : ts[i].st \in {"ok", "failed"}
Failed(ts) == {i \in 1..Len(ts) : ts[i].st = "failed"}
\* for task in join_all(tasks).await { task?? }: the results come in the
\* order of the tasks, so the Err returned is the one of the lowest index.
FirstReturned(ts) == CHOOSE i \in Failed(ts) : ts[i].first
FirstFailed(ts) == CHOOSE i \in Failed(ts) : \A j \in Failed(ts) : i <= j

\* The update fan-out is entered only when every resolution task returned Ok:
\* `task??` returns from run at the first Err of the joined results.
may_dispatch_partial(ts) == \E i \in 1..Len(ts) : ts[i].st = "ok"
may_dispatch(ts) == Failed(ts) = {}

\* join_all(tasks).await, the loop over the results in task order, and the
\* spawn of one update task per resolved record (cdu.rs 134-166).
run_join_resolve ==
    /\ pc = "resolving"
    /\ Finished(tasks)
    /\ IF may_dispatch(tasks)
       THEN /\ pc' = "updating"
            /\ utasks' = [i \in 1..NTasks |-> [st |-> "spawned"]]
            /\ UNCHANGED result
       ELSE /\ pc' = "idle"
            /\ result' = Err(tasks[FirstFailed(tasks)].cause, "record")
            /\ UNCHANGED utasks
    /\ UNCHANGED <<opts, cache, lock, ip_address, zone_id, tasks, calls, prev>>
    /\ UNCHANGED mainVars

\* dns_record_ids: the (identifier, name) pair each resolution task returned,
\* in task order.
dns_record_ids_crossed ==
    [i \in 1..NTasks |-> <<tasks[NTasks + 1 - i].id, opts.records[i]>>]
dns_record_ids == [i \in 1..NTasks |-> <<tasks[i].id, opts.records[i]>>]

\* An update task sends its UpdateDnsRecord request (cdu.rs 144-157).
update_send(i) ==
    /\ pc = "updating"
    /\ utasks[i].st = "spawned"
    /\ tasks[i].st = "ok"
    /\ utasks' = [utasks EXCEPT ![i].st = "sent"]
    /\ calls' = calls \cup
          {UpdateDnsRecord(zone_id, dns_record_ids[i][1], dns_record_ids[i][2],
                           ip_address, i)}
    /\ UNCHANGED <<opts, cache, lock, pc, ip_address, zone_id, tasks, result, prev>>
    /\ UNCHANGED mainVars

\* The provider answers the update of task i (cdu.rs 157-164).
update_reply(i) ==
    /\ pc = "updating"
    /\ utasks[i].st = "sent"
    /\ \E r \in {"ok", "failed"} : utasks' = [utasks EXCEPT ![i].st = r]
    /\ UNCHANGED <<opts, cache, lock, pc, ip_address, zone_id, tasks, calls, result, prev>>
    /\ UNCHANGED mainVars

\* join_all of the update tasks and the result of run (cdu.rs 168-173).
run_join_update ==
    /\ pc = "updating"
    /\ \A i \in 1..Len(utasks) : utasks[i].st \in {"ok", "failed"} \/ tasks[i].st # "ok"
    /\ result' = IF \E i \in 1..Len(utasks) : utasks[i].st = "failed"
                 THEN Err("ProviderCallFailed", "update") ELSE Ok
    /\ pc' = "idle"
    /\ UNCHANGED <<opts, cache, lock, ip_address, zone_id, tasks, utasks, calls, prev>>
    /\ UNCHANGED mainVars

\* ---------------------------------------------------------------- main.rs
record_names == opts.records

\* run_once is called: by main (single-shot), or by an iteration of the loop
\* of run_daemon inside time::timeout.
BeginRun ==
    /\ rpc' = "public_ip"
    /\ running' = running + 1
    /\ attempts' = 1
    /\ elapsed' = 0
    /\ calls' = {}
    /\ result' = Pending
    /\ prev' = result.status
    /\ ip_address' = ""
    /\ zone_id' = NoId
    /\ idx' = 0
    /\ record_map' = {}
    /\ todo' = {}
    /\ cur' = ""

\* main: if opts.daemon { run_daemon } else { run_once }. The first
\* timer.tick() of run_daemon completes at once.
entry_mode_daemon == "run"
entry_mode == IF opts.daemon THEN "run" ELSE "once"

main_start ==
    /\ dpc = "start"
    /\ dpc' = entry_mode
    /\ BeginRun
    /\ UNCHANGED <<opts, exit>>
    /\ UNCHANGED cduVars

\* run_daemon: where the loop goes after run_once returned Ok (it awaits the
\* next tick) and after it returned Err (`timeout_res?` leaves run_daemon).
after_run_ok_break == "exited"
after_run_ok == "wait"
after_run_err_continue == "wait"
after_run_err == "exited"

\* run_once returns r to its caller; main returns what its callee returned.
RunReturns(r) ==
    /\ result' = r
    /\ rpc' = "off"
    /\ running' = running - 1
    /\ LET to == IF dpc = "once" THEN "exited"
                 ELSE IF r.status = "ok" THEN after_run_ok ELSE after_run_err
       IN  /\ dpc' = to
           /\ exit' = IF to = "exited" THEN (IF r.status = "ok" THEN "ok" ELSE "err")
                      ELSE exit

\* run_daemon: the loop body starts once the previous `timeout(..).await`
\* has returned and `timer.tick().await` has fired.
may_start_run_unawaited == dpc \in {"wait", "run"} /\ elapsed >= opts.interval
may_start_run == dpc = "wait" /\ elapsed >= opts.interval

daemon_next_run ==
    /\ may_start_run
    /\ dpc' = "run"
    /\ BeginRun
    /\ UNCHANGED <<opts, exit>>
    /\ UNCHANGED cduVars

\* run_once: public_ip::addr_v4().await; on Some the zone listing of
\* zone_name_to_id is sent.
once_public_ip ==
    /\ rpc = "public_ip"
    /\ \E r \in IPs \cup {"none"} :
        IF r = "none"
        THEN /\ RunReturns(Err("PublicIPError", "ip"))
             /\ UNCHANGED <<ip_address, calls>>
        ELSE /\ ip_address' = r
             /\ calls' = calls \cup {ListZones(opts.zone)}
             /\ rpc' = "zone"
             /\ UNCHANGED <<result, running, dpc, exit>>
    /\ UNCHANGED <<opts, prev, zone_id, idx, record_map, todo, cur, elapsed, attempts>>
    /\ UNCHANGED cduVars

\* zone_name_to_id returns; on Ok record_names_to_ids sends the listing of
\* the first record name.
once_zone_listed ==
    /\ rpc = "zone"
    /\ \E r \in ZoneAnswers :
        CASE r.ty = "err" ->
                /\ RunReturns(Err("ProviderCallFailed", "zone"))
                /\ UNCHANGED <<zone_id, idx, calls>>
          [] r.ty = "none" ->
                /\ RunReturns(Err("ZoneNotFound", "zone"))
                /\ UNCHANGED <<zone_id, idx, calls>>
          [] OTHER ->
                /\ zone_id' = r
                /\ idx' = 1
                /\ calls' = calls \cup {ListDnsRecords(r, record_names[1], 1)}
                /\ rpc' = "records"
                /\ UNCHANGED <<result, running, dpc, exit>>
    /\ UNCHANGED <<opts, prev, ip_address, record_map, todo, cur, elapsed, attempts>>
    /\ UNCHANGED cduVars

\* HashMap::insert(record_name, record_id)
MapInsert(m, n, id) == {e \in m : e.name # n} \cup {[name |-> n, id |-> id]}
MapGet(m, n) == (CHOOSE e \in m : e.name = n).id
MapKeys(m) == {e.name : e \in m}

\* record_names_to_ids: the listing of record_names[idx] returns; the next
\* listing is sent, or after the last one update_dns_records sends the
\* update of the first entry of record_map (HashMap order: any entry).
once_record_listed ==
    /\ rpc = "records"
    /\ \E r \in RecordAnswers(record_names[idx]) :
        CASE r.ty = "err" ->
                /\ RunReturns(Err("ProviderCallFailed", "record"))
                /\ UNCHANGED <<idx, record_map, todo, cur, calls>>
          [] r.ty = "none" ->
                /\ RunReturns(Err("RecordNotFound", "record"))
                /\ UNCHANGED <<idx, record_map, todo, cur, calls>>
          [] OTHER ->
                LET m == MapInsert(record_map, record_names[idx], r) IN
                /\ record_map' = m
                /\ IF idx < Len(record_names)
                   THEN /\ idx' = idx + 1
                        /\ calls' = calls \cup
                              {ListDnsRecords(zone_id, record_names[idx + 1], idx + 1)}
                        /\ UNCHANGED <<rpc, todo, cur>>
                   ELSE /\ \E n \in MapKeys(m) :
                            /\ cur' = n
                            /\ calls' = calls \cup
                                 {UpdateDnsRecord(zone_id, MapGet(m, n), n, ip_address, 0)}
                        /\ todo' = MapKeys(m)
                        /\ rpc' = "updates"
                        /\ UNCHANGED idx
                /\ UNCHANGED <<result, running, dpc, exit>>
    /\ UNCHANGED <<opts, prev, ip_address, zone_id, elapsed, attempts>>
    /\ UNCHANGED cduVars

\* update_dns_records: the PUT of record cur returns; an Err leaves the loop
\* (`?`), an Ok sends the update of the next entry or returns the results.
once_update_replied ==
    /\ rpc = "updates"
    /\ \E r \in {"ok", "failed"} :
        IF r = "failed"
        THEN /\ RunReturns(Err("ProviderCallFailed", "update"))
             /\ UNCHANGED <<todo, cur, calls>>
        ELSE /\ todo' = todo \ {cur}
             /\ IF todo \ {cur} = {}
                THEN /\ RunReturns(Ok)
                     /\ UNCHANGED <<cur, calls>>
                ELSE /\ \E n \in todo \ {cur} :
                         /\ cur' = n
                         /\ calls' = calls \cup
                              {UpdateDnsRecord(zone_id, MapGet(record_map, n), n,
                                               ip_address, 0)}
                     /\ UNCHANGED <<result, rpc, running, dpc, exit>>
    /\ UNCHANGED <<opts, prev, ip_address, zone_id, idx, record_map, elapsed, attempts>>
    /\ UNCHANGED cduVars

\* time::timeout(duration, run_once(..)).await? : the interval elapsed with
\* the run still pending; the future is dropped and Elapsed leaves run_daemon.
after_timeout_continue == "wait"
after_timeout == "exited"

daemon_timeout ==
    /\ dpc = "run"
    /\ rpc # "off"
    /\ elapsed >= opts.interval
    /\ result' = Err("Elapsed", "timeout")
    /\ rpc' = "off"
    /\ running' = running - 1
    /\ dpc' = after_timeout
    /\ exit' = IF after_timeout = "exited" THEN "err" ELSE exit
    /\ UNCHANGED <<opts, prev, ip_address, zone_id, calls, idx, record_map, todo, cur,
                   elapsed, attempts>>
    /\ UNCHANGED cduVars

\* One second passes: cache entries age; the timer of run_daemon advances
\* (its deadline is resolved by daemon_timeout, daemon_next_run or the
\* completion of the run before more time passes).
Tick ==
    /\ exit = "running"
    /\ cache' = Aged(cache)
    /\ elapsed' = IF dpc \in {"run", "wait"} /\ elapsed < opts.interval
                  THEN elapsed + 1 ELSE elapsed
    /\ UNCHANGED <<opts, lock, pc, ip_address, zone_id, tasks, utasks, calls, result,
                   prev, dpc, rpc, idx, record_map, todo, cur, running, attempts, exit>>

\* ---------------------------------------------------------------- specification
Next ==
    \/ Cdu_call
    \/ run_public_ip
    \/ run_zone_listed
    \/ \E i \in 1..NTasks : task_lookup(i)
    \/ \E i \in 1..NTasks : task_listed(i)
    \/ run_join_resolve
    \/ \E i \in 1..NTasks : update_send(i)
    \/ \E i \in 1..NTasks : update_reply(i)
    \/ run_join_update
    \/ main_start
    \/ daemon_next_run
    \/ once_public_ip
    \/ once_zone_listed
    \/ once_record_listed
    \/ once_update_replied
    \/ daemon_timeout
    \/ Tick

Spec == Init /\ [][Next]_vars

\* The runtime keeps driving its timers: time passes, and a loop iteration
\* whose tick has fired starts.
FairSpec == Spec /\ WF_vars(Tick) /\ WF_vars(daemon_next_run)

\* ---------------------------------------------------------------- observations
RunEnded == IF opts.engine = "cdu" THEN pc = "idle" ELSE rpc = "off"
ListCalls == CallsOf("list_zones") \cup CallsOf("list_records")

\* A record resolution of the current run has failed.
ResolutionFailed ==
    \/ \E i \in 1..Len(tasks) : tasks[i].st = "failed"
    \/ result.status = "err" /\ result.stage = "record"

\* ---------------------------------------------------------------- claims

\* C1: all-or-nothing update gating. In a run where the resolution of at
\* least one record name has failed, no update call has been issued, whatever
\* the number of records and the interleaving of the resolution tasks.
C1_AllOrNothing == ResolutionFailed => CallsOf("update") = {}

\* C1 witness: a run of Cdu::run over two records ended with one record
\* resolved and the other one failed.
C1_Witness ==
    /\ opts.engine = "cdu"
    /\ pc = "idle"
    /\ result.stage = "record"
    /\ \E i, j \in 1..Len(tasks) : tasks[i].st = "ok" /\ tasks[j].st = "failed"

\* C2: resolution ordering. Resolution tasks exist and record listings are
\* issued only once the zone of this run is resolved, and every record
\* listing carries the zone identifier that resolution produced.
C2_ZoneBeforeRecords ==
    /\ tasks # <<>> => zone_id \in ZoneIds(opts.zone)
    /\ \A c \in CallsOf("list_records") :
          /\ zone_id \in ZoneIds(opts.zone)
          /\ c.zone = zone_id
    /\ zone_id = NoId => CallsOf("list_records") = {}

\* C2 witness: both resolution tasks of a run have sent their listing.
C2_Witness ==
    /\ opts.engine = "cdu"
    /\ Len(tasks) = 2
    /\ \A i \in 1..2 : tasks[i].st = "listing"
    /\ Cardinality(CallsOf("list_records")) = 2

\* C3: every update call of a record name r carries the zone identifier
\* resolved for the configured zone and a record identifier that the
\* provider listed for r (the one its resolution task holds), also when r is
\* the zone name.
C3_UpdateUsesResolvedIds ==
    \A c \in CallsOf("update") :
        /\ c.zone = zone_id
        /\ c.zone \in ZoneIds(opts.zone)
        /\ c.id \in RecordIds(c.name)
        /\ \E i \in 1..Len(opts.records) : opts.records[i] = c.name
        /\ opts.engine = "cdu" =>
              /\ c.name = opts.records[c.slot]
              /\ c.id = tasks[c.slot].id
        /\ opts.engine = "main" => c.id = MapGet(record_map, c.name)

\* C3 witness: an update call was issued for a record named like the zone.
C3_Witness ==
    /\ opts.engine = "cdu"
    /\ \E c \in CallsOf("update") : c.name = opts.zone

\* C4: a run whose public address is undetermined issues no provider call;
\* a run whose zone is unresolved issues no record listing and no update; a
\* failure at either step ends the run in failure.
C4_EarlyFailureNoCalls ==
    /\ ip_address \notin IPs => calls = {}
    /\ zone_id \notin ZoneIds(opts.zone) =>
          CallsOf("list_records") = {} /\ CallsOf("update") = {}
    /\ result.stage = "ip" => result.status = "err" /\ RunEnded /\ calls = {}
    /\ result.stage = "zone" =>
          /\ result.status = "err"
          /\ RunEnded
          /\ calls = {ListZones(opts.zone)}

\* C4 witness: a run of Cdu::run ended because the zone had zero matches.
C4_Witness ==
    /\ opts.engine = "cdu"
    /\ pc = "idle"
    /\ result = Err("ZoneNotFound", "zone")

\* C5: with a cache TTL of 0 the cache stays empty, and every run that
\* reaches the update phase has issued one zone listing and one record
\* listing per configured record name, also after a successful run.
C5_TtlZeroNoCache ==
    (opts.engine = "cdu" /\ opts.cache_seconds = 0) =>
        /\ cache = <<>>
        /\ pc \in {"resolving", "updating"} \/ result.status = "ok" =>
              CallsOf("list_zones") = {ListZones(opts.zone)}
        /\ pc = "updating" \/ result.status = "ok" =>
              CallsOf("list_records") =
                 {ListDnsRecords(zone_id, opts.records[i], i) : i \in 1..NTasks}

\* C5 witness: the run after a successful run has again listed the zone and
\* both records.
C5_Witness ==
    /\ opts.engine = "cdu"
    /\ opts.cache_seconds = 0
    /\ prev = "ok"
    /\ pc = "updating"
    /\ Cardinality(ListCalls) = 3

\* C6: with caching enabled, a run that follows a successful run while the
\* entries are unexpired issues no listing and updates every record with the
\* cached identifiers; for that, a zone identifier fetched from the provider
\* is in the cache once the fetch has succeeded.
C6_SecondRunFromCache ==
    /\ [](  (/\ opts.engine = "cdu"
             /\ opts.cache_seconds > 0
             /\ prev = "ok"
             /\ CacheGet(cache, opts.zone) # NoId
             /\ \A i \in 1..NTasks : CacheGet(cache, opts.records[i]) # NoId)
          => /\ ListCalls = {}
             /\ result.status = "ok" =>
                  CallsOf("update") =
                    {UpdateDnsRecord(CacheGet(cache, opts.zone),
                                     CacheGet(cache, opts.records[i]),
                                     opts.records[i], ip_address, i) : i \in 1..NTasks})
    /\ [][ (/\ opts.engine = "cdu"
            /\ opts.cache_seconds > 0
            /\ pc = "zone_listing"
            /\ pc' # "zone_listing"
            /\ result'.status # "err")
          => CacheGet(cache', opts.zone) # NoId ]_vars

Transient == {"PublicIPError", "ProviderCallFailed"}
Permanent == {"ZoneNotFound", "RecordNotFound"}
Daemon == opts.engine = "main" /\ opts.daemon

\* C7: in daemon mode a transient failure of a run ends the process only
\* after three attempts.
C7_TransientRetried ==
    (Daemon /\ exit = "err" /\ result.cause \in Transient) => attempts >= 3

\* C8: in daemon mode a run that failed because the zone or a record has
\* zero matches is not retried: the process has ended with the error, no run
\* is in flight, and no run ever follows a failed run.
C8_PermanentNotRetried ==
    Daemon =>
        /\ (result.status = "err" /\ result.cause \in Permanent) =>
              /\ exit = "err"
              /\ dpc = "exited"
              /\ rpc = "off"
              /\ running = 0
              /\ attempts = 1
        /\ prev # "err"

\* C8 witness: the daemon ended on a record with zero matches.
C8_Witness ==
    /\ Daemon
    /\ result = Err("RecordNotFound", "record")
    /\ exit = "err"

\* C9: daemon runs are sequential. At most one run is in flight, the loop
\* waits for its tick only with no run in flight and after a successful run,
\* and a run that outlasted the interval is not followed by another one.
C9_Sequential ==
    Daemon =>
        /\ running <= 1
        /\ running = 1 <=> rpc # "off"
        /\ dpc = "wait" => running = 0 /\ result.status = "ok"
        /\ dpc = "run" => running = 1
        /\ result.cause = "Elapsed" => dpc = "exited" /\ running = 0

\* C9 witness: the run after a completed run is in flight, at its updates.
C9_Witness ==
    /\ Daemon
    /\ prev = "ok"
    /\ running = 1
    /\ rpc = "updates"

Single == opts.engine = "main" /\ ~opts.daemon
Updates == CallsOf("update")

\* C11: in a successful run there is exactly one update call per entry of the
\* configured record-name list, repeated names counted separately, and each
\* call carries its entry's name and the public address of the run.
C11_OneUpdatePerEntry ==
    result.status = "ok" =>
        /\ Cardinality(Updates) = Len(opts.records)
        /\ \A i \in 1..Len(opts.records) :
              \E c \in Updates : c.name = opts.records[i] /\ c.ip = ip_address
        /\ \A c \in Updates : c.ip \in IPs

\* C11, Cdu::run alone: one update call per task slot, with the slot's name,
\* the identifier its task resolved and the address of the run.
C11_CduOneUpdatePerEntry ==
    (opts.engine = "cdu" /\ result.status = "ok") =>
        Updates = {UpdateDnsRecord(zone_id, tasks[i].id, opts.records[i],
                                   ip_address, i) : i \in 1..NTasks}

\* C12: single-shot mode runs run_once exactly once: no run follows another,
\* the loop of run_daemon is never entered, and the process result is success
\* exactly when the run succeeded, failure exactly when it failed.
C12_SingleShot ==
    Single =>
        /\ prev = "pending"
        /\ attempts <= 1
        /\ running <= 1
        /\ dpc \in {"start", "once", "exited"}
        /\ exit = "ok" <=> result.status = "ok"
        /\ exit = "err" <=> result.status = "err"
        /\ dpc = "exited" <=> exit # "running"
        /\ dpc = "exited" => rpc = "off" /\ running = 0

\* C12 witness: the single run updated two records and the process ended
\* with success.
C12_Witness ==
    /\ Single
    /\ exit = "ok"
    /\ Cardinality(Updates) = 2

\* C13: update dispatch is wait-for-all. A run that got past resolution has,
\* when it returns, issued and awaited an update call for every resolved
\* record, whether or not a sibling failed, and it fails exactly when an
\* update failed.
C13_WaitForAll ==
    (RunEnded /\ (result.status = "ok" \/ result.stage = "update")) =>
        /\ opts.engine = "cdu" =>
              /\ \A i \in 1..NTasks :
                    /\ utasks[i].st \in {"ok", "failed"}
                    /\ \E c \in Updates : c.slot = i
              /\ result.status = "err" <=> \E i \in 1..NTasks : utasks[i].st = "failed"
        /\ opts.engine = "main" =>
              \A n \in MapKeys(record_map) : \E c \in Updates : c.name = n

\* C13, Cdu::run alone: the same statement for the spawned update tasks.
C13_CduWaitForAll ==
    (opts.engine = "cdu" /\ pc = "idle"
       /\ (result.status = "ok" \/ result.stage = "update")) =>
        /\ \A i \in 1..NTasks :
              /\ utasks[i].st \in {"ok", "failed"}
              /\ \E c \in Updates : c.slot = i
        /\ result.status = "err" <=> \E i \in 1..NTasks : utasks[i].st = "failed"

ResolutionFailure == opts.engine = "cdu" /\ pc = "idle" /\ result.stage = "record"

\* C14 as stated: when record resolutions failed, the run reports the failure
\* of the task that returned first.
C14_FirstReturnedWins ==
    ResolutionFailure => result.cause = tasks[FirstReturned(tasks)].cause

\* C14 as amended: when record resolutions failed, the run reports the
\* failure of the failed task that comes first in the configured order,
\* whichever task returned first.
C14_FirstInOrderWins ==
    ResolutionFailure =>
        \E i \in 1..NTasks :
            /\ tasks[i].st = "failed"
            /\ \A j \in 1..NTasks : tasks[j].st = "failed" => i <= j
            /\ result.cause = tasks[i].cause

\* C14 witness: two resolutions failed with different causes, the second
\* task returned first, and the run has reported.
C14_Witness ==
    /\ ResolutionFailure
    /\ NTasks = 2
    /\ tasks[1].st = "failed"
    /\ tasks[2].st = "failed"
    /\ tasks[2].first
    /\ tasks[1].cause # tasks[2].cause

\* C15: the cache lock is deadlock free: Cdu::run never requests the mutex
\* while it holds it, so no run is stuck (or aborted) on the lock.
C15_DeadlockFree == opts.engine = "cdu" => pc \notin {"deadlock", "panic"}

\* C15, second part: the mutex is not held while a provider call is awaited.
C15_LockNotHeldAcrossAwait ==
    (pc = "zone_listing" \/ \E i \in 1..Len(tasks) : tasks[i].st = "listing")
        => lock = "free"

\* C16: the cache never holds more entries than its capacity. (No insertion
\* is reachable, so this holds with an empty cache only.)
C16_CapacityBound == Len(cache) <= Capacity(opts)

HasFresh(c, k, v) ==
    \E i \in 1..Len(c) :
        c[i].key = k /\ c[i].value = v /\ c[i].age = 0 /\ c[i].ttl = opts.cache_seconds

\* C17: lazy expiry at run level. With caching enabled, a resolution that
\* finds no unexpired entry fetches the identifier and writes it back with a
\* new expiry (zone and records), and an identifier taken without a listing
\* is the one the cache holds.
C17_LazyExpiry ==
    /\ [][ (/\ opts.engine = "cdu"
            /\ opts.cache_seconds > 0
            /\ pc = "zone_listing"
            /\ pc' # "zone_listing"
            /\ result'.status # "err")
          => HasFresh(cache', opts.zone, zone_id') ]_vars
    /\ [][ \A i \in 1..Len(tasks) :
            (/\ opts.cache_seconds > 0
             /\ pc = "resolving" /\ pc' = "resolving"
             /\ tasks[i].st = "listing"
             /\ tasks'[i].st = "ok")
            => HasFresh(cache', opts.records[i], tasks'[i].id) ]_vars
    /\ [](\A i \in 1..Len(tasks) :
            (pc = "resolving" /\ tasks[i].st = "ok"
               /\ ~\E c \in CallsOf("list_records") : c.slot = i)
            => tasks[i].id = CacheGet(cache, opts.records[i]))

\* C18: in run_daemon a run is bounded by the interval. A run in flight never
\* outlasts it; when the timeout fires the run is dropped, the run counts as
\* failed, and the loop ends with the error like on any other failure.
C18_TimeoutEndsLoop ==
    Daemon =>
        /\ running = 1 => elapsed <= opts.interval
        /\ result.cause = "Elapsed" =>
              /\ result.status = "err"
              /\ rpc = "off"
              /\ running = 0
              /\ dpc = "exited"
              /\ exit = "err"
              /\ elapsed = opts.interval
        /\ result.status = "err" => dpc = "exited" /\ exit = "err"

\* C18 witness: the timeout fired while record listings were under way; no
\* update was issued and the daemon has ended.
C18_Witness ==
    /\ Daemon
    /\ result = Err("Elapsed", "timeout")
    /\ CallsOf("list_records") # {}
    /\ Updates = {}
    /\ exit = "err"

====
